---- MODULE Spec2Model ----
(***************************************************************************)
(* The remote-connection portal of app.music-assistant.io.                 *)
(*                                                                         *)
(* broker.ts (src/unnamed/part_000): the Connection Store over             *)
(* localStorage, the version classifier, the remote-ID check and the       *)
(* RemoteConnector handshake; main.ts (src/src/main.ts): the callers that  *)
(* hand an identifier to connectToServer and the cancel button.            *)
(*                                                                         *)
(* JavaScript runs every handler to completion on one thread, and the      *)
(* continuation of an await runs in the task that settles the promise, so  *)
(* one action is one task: an event handler, or the settling of one        *)
(* awaited promise together with everything that then runs synchronously   *)
(* (the continuation, the catch block, the caller's catch block).          *)
(*                                                                         *)
(* Strings whose characters the code inspects (identifiers, versions) are  *)
(* sequences of one-character strings.  <<>> stands for null, undefined    *)
(* and the empty string, which the code tests alike (`if (x)`).            *)
(***************************************************************************)
EXTENDS Integers, Sequences, FiniteSets, TLC

\* ---------------------------------------------------------------- bounds
\* Events the environment delivers to one attempt.
MaxAnswers == 2
MaxCands == 3
MaxMsgs == 2
MaxSigErrors == 1

\* ------------------------------------------------------ program constants
RemoteIdLen == 26
REMOTE_ID_LENGTHS == <<8, 5, 5, 8>>

\* ---------------------------------------------------------------- strings
NULL == <<>>

Rep(ch, n) == [i \in 1..n |-> ch]

Min(a, b) == IF a < b THEN a ELSE b

Upper == {"A", "B", "Z"}
Lower == {"a", "b", "z"}
Digit == {"0", "1", "9"}

ToUpper(ch) ==
  CASE ch = "a" -> "A"
    [] ch = "b" -> "B"
    [] ch = "z" -> "Z"
    [] OTHER -> ch

IsCleanChar(ch) == ch \in Upper \cup Digit

\* s.slice(from, from + n), 0-based from
Slice(s, from, n) == SubSeq(s, from + 1, Min(from + n, Len(s)))

\* s.includes(sub)
Includes(s, sub) ==
  \E i \in 0..(Len(s) - Len(sub)) : Slice(s, i, Len(sub)) = sub

\* text.toUpperCase().replace(/[^A-Z0-9]/g, "")
CleanText(text) ==
  SelectSeq([i \in 1..Len(text) |-> ToUpper(text[i])], IsCleanChar)

\* -------------------------------------------------------- Identity Codec
\* /^[A-Z0-9]{26}$/i.test(remoteId)
isValidRemoteId(remoteId) ==
  /\ Len(remoteId) = RemoteIdLen
  /\ \A i \in 1..Len(remoteId) : remoteId[i] \in Upper \cup Lower \cup Digit

\* ----------------------------------------------------- Channel Classifier
\* A classifier that tests the beta rule first.
betaFirst(version) ==
  IF Includes(version, <<"b">>) THEN "beta"
  ELSE IF version = <<"0", ".", "0", ".", "0">> THEN "nightly"
  ELSE IF Includes(version, <<".", "d", "e", "v">>) THEN "nightly"
  ELSE "stable"

getChannelFromVersion(version) ==
  IF version = <<"0", ".", "0", ".", "0">> THEN "nightly"
  ELSE IF Includes(version, <<".", "d", "e", "v">>) THEN "nightly"
  ELSE IF Includes(version, <<"b">>) THEN "beta"
  ELSE "stable"

\* -------------------------------------------------------- Connection Store
\* localStorage: the three keys the broker touches; NULL = key absent.
EmptyStorage == [ma_saved_connection |-> NULL, mass_remote_id |-> NULL,
                 ma_access_token |-> NULL]

\* A JSON text is the sequence of its member texts; a member text is a
\* sequence of characters.  A JSON string is written between quotes with
\* quote and backslash escaped, a number in decimal digits.
QUOTE == "\""
BACKSLASH == "\\"

DecimalDigits == <<"0", "1", "2", "3", "4", "5", "6", "7", "8", "9">>

\* An escape that leaves every character as it is.
EscapeNothing(str) == str

RECURSIVE Escape(_)
Escape(str) ==
  IF str = <<>> THEN <<>>
  ELSE (IF Head(str) \in {QUOTE, BACKSLASH} THEN <<BACKSLASH, Head(str)>>
        ELSE <<Head(str)>>) \o Escape(Tail(str))

RECURSIVE Unescape(_)
Unescape(text) ==
  IF text = <<>> THEN <<>>
  ELSE IF Head(text) = BACKSLASH /\ Len(text) >= 2
       THEN <<text[2]>> \o Unescape(Tail(Tail(text)))
       ELSE <<Head(text)>> \o Unescape(Tail(text))

Quote(str) == <<QUOTE>> \o Escape(str) \o <<QUOTE>>

IsQuoted(text) ==
  Len(text) >= 2 /\ Head(text) = QUOTE /\ text[Len(text)] = QUOTE

Unquote(text) == Unescape(SubSeq(text, 2, Len(text) - 1))

RECURSIVE NumberToText(_)
NumberToText(n) ==
  IF n < 10 THEN <<DecimalDigits[n + 1]>>
  ELSE NumberToText(n \div 10) \o <<DecimalDigits[(n % 10) + 1]>>

DigitValue(ch) == (CHOOSE d \in 1..10 : DecimalDigits[d] = ch) - 1

IsNumberText(text) ==
  text # <<>> /\ \A i \in 1..Len(text) : \E d \in 1..10 : DecimalDigits[d] = text[i]

RECURSIVE TextToNumber(_)
TextToNumber(text) ==
  IF text = <<>> THEN 0
  ELSE 10 * TextToNumber(SubSeq(text, 1, Len(text) - 1))
         + DigitValue(text[Len(text)])

\* JSON.stringify(connection): the members in insertion order.
JsonStringify(connection) ==
  <<Quote(connection.remoteId), Quote(connection.serverName),
    Quote(connection.serverVersion), Quote(<<connection.channel>>),
    NumberToText(connection.lastConnected)>>

\* Stored texts that saveConnection did not write: "{" and "{}".
JSON_UNPARSABLE == << <<"{">> >>
JSON_EMPTY_OBJECT == << <<"{">>, <<"}">> >>

\* JSON.parse(text) returns (it throws a SyntaxError otherwise).
JsonParses(text) ==
  \/ text = JSON_EMPTY_OBJECT
  \/ /\ Len(text) = 5
     /\ \A i \in 1..4 : IsQuoted(text[i])
     /\ IsNumberText(text[5])

\* JSON.parse(text) as SavedConnection: the cast checks nothing, so the
\* object has the members the text has.  A missing member reads as
\* undefined: NULL, and "undefined" for the channel.
JsonParse(text) ==
  IF text = JSON_EMPTY_OBJECT
  THEN [remoteId |-> NULL, serverName |-> NULL, serverVersion |-> NULL,
        channel |-> "undefined", lastConnected |-> 0]
  ELSE [remoteId |-> Unquote(text[1]), serverName |-> Unquote(text[2]),
        serverVersion |-> Unquote(text[3]),
        channel |-> IF Len(Unquote(text[4])) = 1 THEN Unquote(text[4])[1]
                    ELSE "undefined",
        lastConnected |-> TextToNumber(text[5])]

saveConnection(storage, connection) ==
  [storage EXCEPT !.ma_saved_connection = JsonStringify(connection),
                  !.mass_remote_id = connection.remoteId]

\* A migration record that claims a version.
PlaceholderWithVersion(frontendRemoteId) ==
  [remoteId |-> frontendRemoteId, serverName |-> <<"Saved Server">>,
   serverVersion |-> <<"2", ".", "1", ".", "0">>, channel |-> "stable",
   lastConnected |-> 0]

\* What loadSavedConnection synthesizes from the frontend's keys.
PlaceholderConnection(frontendRemoteId) ==
  [remoteId |-> frontendRemoteId, serverName |-> <<"Saved Server">>,
   serverVersion |-> <<"unknown">>, channel |-> "stable", lastConnected |-> 0]

\* loadSavedConnection(): null is the empty set, a connection the set of it.
loadSavedConnection(storage) ==
  LET stored == storage.ma_saved_connection
      frontendRemoteId == storage.mass_remote_id
      hasToken == storage.ma_access_token
  IN IF stored # NULL /\ JsonParses(stored) THEN {JsonParse(stored)}
     ELSE IF /\ frontendRemoteId # NULL /\ hasToken # NULL
             /\ isValidRemoteId(frontendRemoteId)
          THEN {PlaceholderConnection(frontendRemoteId)}
          ELSE {}

\* A clear that removes every key the broker knows.
clearEverything(storage) ==
  [ma_saved_connection |-> NULL, mass_remote_id |-> NULL,
   ma_access_token |-> NULL]

clearSavedConnection(storage) == [storage EXCEPT !.ma_saved_connection = NULL]

\* ------------------------------------------------------------ sample data
ID_UPPER == Rep("A", RemoteIdLen)
ID_TYPED == Rep("a", 8) \o <<"-">> \o Rep("b", 5) \o <<"-">> \o Rep("1", 5)
              \o <<"-">> \o Rep("z", 8)
ID_SHORT == <<"A", "B", "1">>

\* What the user pastes into the first input field.
PastedTexts == {ID_TYPED, ID_SHORT}

\* A decoded QR code: `new URL(decodedText)` either parses, and then
\* remote_id is the value of that search parameter (NULL when it has none),
\* or throws, and then text is the raw decoded text.
QrTexts ==
  {[isUrl |-> TRUE, remote_id |-> ID_SHORT, text |-> NULL],
   [isUrl |-> TRUE, remote_id |-> NULL, text |-> NULL],
   [isUrl |-> FALSE, remote_id |-> NULL, text |-> ID_TYPED],
   [isUrl |-> FALSE, remote_id |-> NULL, text |-> ID_SHORT]}

V_STABLE == <<"2", ".", "1", ".", "0">>
V_BETA == <<"2", ".", "2", ".", "0", "b", "1">>

\* The data of an inbound data-channel message: text that JSON.parse
\* rejects (parses = FALSE), or an object with these members (NULL: the
\* member is missing).
Messages ==
  {[parses |-> FALSE, server_id |-> NULL, server_version |-> NULL,
    server_name |-> NULL],
   [parses |-> TRUE, server_id |-> <<"s">>, server_version |-> NULL,
    server_name |-> NULL],
   [parses |-> TRUE, server_id |-> <<"s">>, server_version |-> V_STABLE,
    server_name |-> <<"H">>],
   [parses |-> TRUE, server_id |-> <<"s">>, server_version |-> V_BETA,
    server_name |-> NULL]}


\* ------------------------------------------------------------------ state
VARIABLES
  conn,     \* the RemoteConnector of the attempt, with the browser objects
            \* and the signaling client it owns
  storage,  \* localStorage
  app,      \* main.ts: the module variables and the view
  hist,     \* what has happened so far (read by the properties only)
  call      \* the latest direct call of an exported function of broker.ts:
            \* its name, argument and result

vars == <<conn, storage, app, hist, call>>

\* new RemoteConnector(...): the fields as declared, then what the model
\* keeps of the objects behind them.
NewConnector ==
  [peerConnection |-> "null",        \* "null" | "pc"
   dataChannel |-> "null",           \* "null" | "dc"
   iceCandidateBuffer |-> <<>>,
   remoteDescriptionSet |-> FALSE,
   currentRemoteId |-> NULL,
   remoteId |-> NULL,                \* connect()'s parameter
   \* connect(): the await it is suspended at, or how it ended
   step |-> "idle",  \* idle, signaling.connect, requestConnection,
                     \* createOffer, setLocalDescription, waitForServerInfo,
                     \* resolved, rejected
   error |-> "none", \* the message connect() was rejected with
   \* SignalingClient: disconnected, connecting, connected
   signaling |-> "disconnected",
   \* RTCPeerConnection and RTCDataChannel objects
   pcState |-> "none",               \* none, open, closed
   pcRemote |-> FALSE,               \* the peer connection has a remote
                                     \* description
   dcState |-> "none",               \* none, connecting, open, closed
   onopen |-> FALSE,                 \* dataChannel.onopen/onerror are set
   onmessage |-> FALSE,              \* dataChannel.onmessage is installed
   \* waitForServerInfo's setTimeout is pending
   timeout |-> FALSE,
   \* handleAnswer(): calls suspended at setRemoteDescription, and the
   \* buffer index whose addIceCandidate the drain loop awaits (0: none)
   answersPending |-> 0,
   drainIndex |-> 0]

\* localStorage when the page loads: nothing; the frontend's identifier
\* without and with its token; what an earlier visit saved; a primary
\* record without members.
SAVED_STABLE ==
  [remoteId |-> ID_UPPER, serverName |-> <<"H">>, serverVersion |-> V_STABLE,
   channel |-> "stable", lastConnected |-> 1]

InitialStorages ==
  {EmptyStorage,
   [EmptyStorage EXCEPT !.mass_remote_id = ID_UPPER],
   [EmptyStorage EXCEPT !.mass_remote_id = ID_UPPER,
                        !.ma_access_token = <<"t">>],
   saveConnection(EmptyStorage, SAVED_STABLE),
   [EmptyStorage EXCEPT !.ma_saved_connection = JSON_EMPTY_OBJECT]}

\* main.ts: the module variables and the view when the page has loaded.
InitialApp ==
  [connector |-> FALSE,     \* `connector` is not null
   currentRemoteId |-> NULL,
   inputs |-> [i \in 1..4 |-> <<>>],  \* the four input fields
   view |-> "loading",      \* loading: init() has not run yet
   errorMessage |-> "none",
   qrError |-> FALSE,
   step |-> "idle",   \* connectToServer(): idle, connect (awaiting
                      \* it), delay, redirected, failed
   serverVersion |-> NULL,
   earlier |-> FALSE,  \* an earlier connectToServer call still awaits a
                       \* connect() whose timer is pending
   redirect |-> "none"]

\* Nothing has happened yet.
InitialHist(storage0) ==
  [storage0 |-> storage0,   \* localStorage before the attempt
   saved |-> FALSE,        \* init() found a saved connection
   network |-> {},         \* signaling calls made
   onErrorCalls |-> 0,     \* this.onError(...) invocations
   reported |-> FALSE,     \* an error was reported
   rejected |-> FALSE,     \* the verifier rejected an answer
   accepted |-> FALSE,     \* the remote description was accepted
   disconnected |-> FALSE, \* disconnect() by the cancel button
   timedOut |-> FALSE,     \* the ceiling timer fired
   iceFailed |-> FALSE,    \* ICE went failed or disconnected
   saves |-> 0,            \* saveConnection calls
   answers |-> 0,          \* events delivered
   candidates |-> 0,
   messages |-> 0,
   firstMessage |-> "none", \* the first message: none, bad, good
   signalingErrors |-> 0,
   buffered |-> <<>>,      \* candidates pushed to the buffer
   applied |-> <<>>,       \* candidates given to addIceCandidate
   immediate |-> {},       \* candidates received after acceptance
   early |-> FALSE,        \* addIceCandidate was called on a peer
                           \* connection without a remote description
   reused |-> FALSE,       \* a second attempt was started
   drain |-> "none"]       \* the drain loop: none, running,
                           \* done, failed

\* No exported function has been called directly.
NoCall == [fn |-> "none", arg |-> NULL, result |-> NULL,
           before |-> EmptyStorage, lastSaved |-> {}, noLegacy |-> FALSE,
           forgotten |-> {}]

Init ==
  /\ conn = NewConnector
  /\ storage \in InitialStorages
  /\ app = InitialApp
  /\ hist = InitialHist(storage)
  /\ call = NoCall

\* ------------------------------------------------------- SignalingClient
\* The client of the signaling service (./signaling), by its interface:
\* connect() starts connecting; disconnect() drops the connection; events
\* are delivered, and pending requests are answered, only over a live
\* connection.  A pending request may fail at any time.
signalingConnect(c) == [c EXCEPT !.signaling = "connecting"]

signalingDisconnect(c) == [c EXCEPT !.signaling = "disconnected"]

signalingDelivers(c) == c.signaling = "connected"

\* ------------------------------------------------------- RemoteConnector
\* cleanup() that drops its references without closing what they refer to.
cleanupWithoutClose(c) ==
  [signalingDisconnect(c) EXCEPT
     !.dataChannel = "null", !.peerConnection = "null",
     !.remoteDescriptionSet = FALSE, !.iceCandidateBuffer = <<>>,
     !.currentRemoteId = NULL]

\* cleanup() that leaves the signaling client connected.
cleanupLeavesSignaling(c) ==
  [c EXCEPT
     !.dcState = IF @ = "none" THEN @ ELSE "closed",
     !.pcState = IF @ = "none" THEN @ ELSE "closed",
     !.answersPending = 0, !.drainIndex = 0,
     !.dataChannel = "null", !.peerConnection = "null",
     !.remoteDescriptionSet = FALSE, !.iceCandidateBuffer = <<>>,
     !.currentRemoteId = NULL]

\* cleanup() that does not reset the remote-description flag.
cleanupKeepsFlag(c) ==
  [signalingDisconnect(c) EXCEPT
     !.dcState = IF @ = "none" THEN @ ELSE "closed",
     !.pcState = IF @ = "none" THEN @ ELSE "closed",
     !.answersPending = 0, !.drainIndex = 0,
     !.dataChannel = "null", !.peerConnection = "null",
     !.iceCandidateBuffer = <<>>, !.currentRemoteId = NULL]

\* cleanup(): close() ends the channel and the peer connection; a closed
\* RTCPeerConnection never settles its pending operations (WebRTC: "if
\* connection.[[IsClosed]] is true, abort these steps"), so the handlers
\* awaiting them never resume.
cleanup(c) ==
  LET c1 == IF c.dataChannel # "null"
            THEN [c EXCEPT !.dcState = "closed", !.dataChannel = "null"]
            ELSE c
      c2 == IF c1.peerConnection # "null"
            THEN [c1 EXCEPT !.pcState = "closed",
                            !.dcState = IF @ = "none" THEN @ ELSE "closed",
                            !.answersPending = 0, !.drainIndex = 0,
                            !.peerConnection = "null"]
            ELSE c1
  IN [signalingDisconnect(c2) EXCEPT !.remoteDescriptionSet = FALSE,
                                     !.iceCandidateBuffer = <<>>,
                                     !.currentRemoteId = NULL]

\* connect(): the catch block, rejecting with the error it caught.
connectCatch(c, error) ==
  [cleanup(c) EXCEPT !.step = "rejected", !.error = error]

\* showError(message)
showError(a, message) == [a EXCEPT !.view = "error", !.errorMessage = message]

\* this.onError(message), as seen by the history
onError(h) == [h EXCEPT !.onErrorCalls = @ + 1, !.reported = TRUE]


\* disconnect()
disconnect(c) == cleanup(c)

\* A catch block of handleAnswer that reports and does not clean up.
handleAnswerCatchWithoutCleanup(c) == c

\* handleAnswer(): the catch block, after the error callback.
handleAnswerCatch(c) == cleanup(c)

\* An onmessage/onerror handler that leaves the timer running.
clearTimeoutMissing(c) == c

\* clearTimeout(timeout)
clearTimeout(c) == [c EXCEPT !.timeout = FALSE]

\* ---------------------------------------------------------------- main.ts
Offset(startIndex, i) ==
  LET RECURSIVE Sum(_)
      Sum(j) == IF j >= i THEN 0 ELSE REMOTE_ID_LENGTHS[j] + Sum(j + 1)
  IN Sum(startIndex)

\* distributeRemoteIdText(text, startIndex): the fields it leaves
distributeRemoteIdText(inputs, text, startIndex) ==
  LET remaining == CleanText(text)
  IN [i \in 1..4 |->
        IF i >= startIndex /\ Offset(startIndex, i) < Len(remaining)
        THEN Slice(remaining, Offset(startIndex, i), REMOTE_ID_LENGTHS[i])
        ELSE inputs[i]]

\* setRemoteIdFromString(value)
setRemoteIdFromString(value) ==
  LET cleanText == CleanText(value)
  IN [i \in 1..4 |-> Slice(cleanText, Offset(1, i), REMOTE_ID_LENGTHS[i])]

isRemoteIdComplete(inputs) ==
  \A i \in 1..4 : Len(inputs[i]) = REMOTE_ID_LENGTHS[i]

getFullRemoteId(inputs) == inputs[1] \o inputs[2] \o inputs[3] \o inputs[4]

\* onQrCodeSuccess: the identifier it extracts (NULL: none)
extractedRemoteId(decoded) ==
  IF decoded.isUrl THEN decoded.remote_id
  ELSE IF Len(CleanText(decoded.text)) = RemoteIdLen
       THEN CleanText(decoded.text)
       ELSE NULL

\* The page is still loaded: redirectToFrontend navigates away.
PageLoaded == app.redirect = "none"

\* connectToServer(remoteId) up to `await connector.connect(remoteId)`, and
\* connect(remoteId) up to `await this.signaling.connect()`.
connectToServer(remoteId, inputs, h) ==
  /\ app' = [app EXCEPT !.currentRemoteId = remoteId, !.view = "connecting",
                        !.connector = TRUE, !.step = "connect",
                        !.inputs = inputs]
  /\ conn' = signalingConnect(
               [NewConnector EXCEPT !.currentRemoteId = remoteId,
                                    !.remoteId = remoteId,
                                    !.step = "signaling.connect"])
  /\ hist' = [h EXCEPT !.network = @ \cup {"signaling"}]
  /\ UNCHANGED storage

\* init(): a saved connection with a known version redirects at once; one
\* without (the migration case) is connected to; with none the connect view
\* is shown.  setRemoteIdFromString(undefined) throws a TypeError, which
\* ends init() with no view shown.
init ==
  /\ PageLoaded /\ app.view = "loading"
  /\ LET saved == loadSavedConnection(storage)
         h1 == [hist EXCEPT !.saved = \E x \in saved : x.remoteId # NULL]
     IN IF saved = {}
        THEN /\ app' = [app EXCEPT !.view = "connect"]
             /\ hist' = h1
             /\ UNCHANGED <<conn, storage>>
        ELSE LET c == CHOOSE x \in saved : TRUE
             IN IF c.channel # "undefined" /\ c.serverVersion # <<"unknown">>
                THEN /\ app' = [app EXCEPT !.redirect = c.channel]
                     /\ hist' = h1
                     /\ UNCHANGED <<conn, storage>>
                ELSE IF c.remoteId = NULL
                THEN /\ app' = [app EXCEPT !.view = "broken"]
                     /\ hist' = h1
                     /\ UNCHANGED <<conn, storage>>
                ELSE connectToServer(c.remoteId,
                                     setRemoteIdFromString(c.remoteId), h1)
  /\ UNCHANGED call

\* handleRemoteIdPaste(0, event)
Paste(text) ==
  /\ PageLoaded /\ app.step = "idle" /\ app.view = "connect"
  /\ CleanText(text) # <<>>
  /\ app' = [app EXCEPT !.inputs =
               distributeRemoteIdText([i \in 1..4 |-> <<>>], CleanText(text), 1)]
  /\ UNCHANGED <<conn, storage, hist>>
  /\ UNCHANGED call

\* the connect button's click handler
ClickConnect ==
  /\ PageLoaded /\ app.step = "idle" /\ app.view = "connect"
  /\ isRemoteIdComplete(app.inputs)
  /\ connectToServer(getFullRemoteId(app.inputs), app.inputs, hist)
  /\ UNCHANGED call

\* onQrCodeSuccess(decodedText)
QrCodeSuccess(decoded) ==
  /\ PageLoaded /\ app.step = "idle" /\ app.view = "connect"
  /\ IF extractedRemoteId(decoded) # NULL
     THEN connectToServer(extractedRemoteId(decoded),
                          setRemoteIdFromString(extractedRemoteId(decoded)),
                          hist)
     ELSE /\ app' = [app EXCEPT !.qrError = TRUE]
          /\ UNCHANGED <<conn, storage, hist>>
  /\ UNCHANGED call

\* connect() rejects with `error` out of its catch block, and
\* connectToServer's catch block runs: connector?.disconnect();
\* connector = null; showError(error.message).
ConnectRejected(c, error, h) ==
  /\ conn' = IF app.connector THEN disconnect(connectCatch(c, error))
             ELSE connectCatch(c, error)
  /\ app' = [showError(app, error) EXCEPT !.connector = FALSE,
                                          !.step = "failed"]
  /\ hist' = [h EXCEPT !.reported = TRUE]
  /\ UNCHANGED storage

\* ------------------------------------------------ connect(): its awaits
\* `await this.signaling.connect()` resolves; requestConnection is sent.
SignalingConnected ==
  /\ PageLoaded /\ conn.step = "signaling.connect"
  /\ conn.signaling = "connecting"
  /\ conn' = [conn EXCEPT !.signaling = "connected",
                          !.step = "requestConnection"]
  /\ hist' = [hist EXCEPT !.network = @ \cup {"request"}]
  /\ UNCHANGED <<storage, app>>
  /\ UNCHANGED call

\* `await this.signaling.connect()` or `await requestConnection()` rejects.
SignalingRejected ==
  /\ PageLoaded /\ conn.step \in {"signaling.connect", "requestConnection"}
  /\ ConnectRejected(conn, "Signaling error", hist)
  /\ UNCHANGED call

\* requestConnection resolves: createPeerConnection, createDataChannel,
\* createOffer is called.  The signaling server grants a connection only
\* to the Remote ID of a registered server, which is well-formed; for any
\* other identifier the request fails.
ConnectionGranted ==
  /\ PageLoaded /\ conn.step = "requestConnection"
  /\ signalingDelivers(conn) /\ isValidRemoteId(conn.remoteId)
  /\ conn' = [conn EXCEPT !.peerConnection = "pc", !.pcState = "open",
                          !.pcRemote = FALSE,
                          !.dataChannel = "dc", !.dcState = "connecting",
                          !.onopen = FALSE, !.onmessage = FALSE,
                          !.step = "createOffer"]
  /\ UNCHANGED <<storage, app, hist>>
  /\ UNCHANGED call

\* createOffer resolves: this.peerConnection!.setLocalDescription(offer).
OfferCreated ==
  /\ PageLoaded /\ conn.step = "createOffer" /\ conn.pcState = "open"
  /\ IF conn.peerConnection = "null"
     THEN ConnectRejected(conn, "TypeError", hist)
     ELSE /\ conn' = [conn EXCEPT !.step = "setLocalDescription"]
          /\ UNCHANGED <<storage, app, hist>>
  /\ UNCHANGED call

\* createOffer or setLocalDescription rejects.
OfferFailed ==
  /\ PageLoaded /\ conn.step \in {"createOffer", "setLocalDescription"}
  /\ conn.pcState = "open"
  /\ ConnectRejected(conn, "WebRTC error", hist)
  /\ UNCHANGED call

\* setLocalDescription resolves: sendOffer, then waitForServerInfo arms
\* the timer and installs the data channel's handlers.
OfferSent ==
  /\ PageLoaded /\ conn.step = "setLocalDescription" /\ conn.pcState = "open"
  /\ LET c1 == [conn EXCEPT !.timeout = TRUE]
         h1 == [hist EXCEPT !.network = @ \cup {"offer"}]
     IN IF conn.dataChannel = "null"
        THEN ConnectRejected(c1, "TypeError", h1)
        ELSE /\ conn' = [c1 EXCEPT !.step = "waitForServerInfo",
                                   !.onopen = TRUE,
                                   !.onmessage = (conn.dcState = "open")]
             /\ hist' = h1
             /\ UNCHANGED <<storage, app>>
  /\ UNCHANGED call


\* ------------------------------------------------------ signaling events
\* "answer": handleAnswer(answer).  valid: verifyAndSanitizeSdp returns.
\* The call suspends at setRemoteDescription, or the verifier throws.
Answer(valid) ==
  /\ PageLoaded /\ signalingDelivers(conn)
  /\ hist.answers < MaxAnswers
  /\ LET h1 == [hist EXCEPT !.answers = @ + 1]
     IN IF conn.peerConnection = "null" \/ conn.currentRemoteId = NULL
        THEN /\ hist' = h1
             /\ UNCHANGED <<conn, app>>
        ELSE IF valid
        THEN /\ conn' = [conn EXCEPT !.answersPending = @ + 1]
             /\ hist' = h1
             /\ UNCHANGED app
        ELSE /\ conn' = handleAnswerCatch(conn)
             /\ app' = showError(app, "Security verification failed")
             /\ hist' = [onError(h1) EXCEPT !.rejected = TRUE]
  /\ UNCHANGED storage
  /\ UNCHANGED call

\* setRemoteDescription resolves (the peer connection holds the local
\* offer and no answer yet): the flag is set and the drain loop starts.
AnswerAccepted ==
  /\ PageLoaded /\ conn.answersPending > 0 /\ conn.pcState = "open"
  /\ conn.step = "waitForServerInfo" /\ ~conn.pcRemote
  /\ LET c1 == [conn EXCEPT !.answersPending = @ - 1, !.pcRemote = TRUE,
                            !.remoteDescriptionSet = TRUE]
         h1 == [hist EXCEPT !.accepted = TRUE]
     IN IF conn.iceCandidateBuffer = <<>>
        THEN /\ conn' = c1
             /\ hist' = [h1 EXCEPT !.drain = "done"]
        ELSE /\ conn' = [c1 EXCEPT !.drainIndex = 1]
             /\ hist' = [h1 EXCEPT !.drain = "running",
                                   !.applied =
                                     Append(@, conn.iceCandidateBuffer[1])]
  /\ UNCHANGED <<storage, app>>
  /\ UNCHANGED call

\* setRemoteDescription rejects (bad SDP, or an answer in the wrong
\* signaling state).
AnswerFailed ==
  /\ PageLoaded /\ conn.answersPending > 0 /\ conn.pcState = "open"
  /\ conn' = handleAnswerCatch(conn)
  /\ app' = showError(app, "Connection error")
  /\ hist' = onError(hist)
  /\ UNCHANGED storage
  /\ UNCHANGED call

\* "ice-candidate": handleIceCandidate(candidate).  A failure of the
\* immediate addIceCandidate is caught and logged: no state changes.
IceCandidate ==
  /\ PageLoaded /\ signalingDelivers(conn)
  /\ hist.candidates < MaxCands
  /\ LET id == hist.candidates + 1
         h1 == [hist EXCEPT !.candidates = id]
     IN IF conn.peerConnection = "null"
        THEN /\ hist' = h1
             /\ UNCHANGED conn
        ELSE IF conn.remoteDescriptionSet
        THEN /\ hist' = [h1 EXCEPT !.applied = Append(@, id),
                                   !.immediate = @ \cup {id},
                                   !.early = @ \/ ~conn.pcRemote]
             /\ UNCHANGED conn
        ELSE /\ conn' = [conn EXCEPT !.iceCandidateBuffer = Append(@, id)]
             /\ hist' = [h1 EXCEPT !.buffered = Append(@, id)]
  /\ UNCHANGED <<storage, app>>
  /\ UNCHANGED call

\* The drain loop's addIceCandidate settles: the loop goes on to the next
\* buffered candidate or ends and clears the buffer (ok), or the rejection
\* is caught by handleAnswer's catch block.
DrainSettled(ok) ==
  /\ PageLoaded /\ conn.drainIndex > 0 /\ conn.pcState = "open"
  /\ IF ok
     THEN /\ IF conn.drainIndex < Len(conn.iceCandidateBuffer)
             THEN /\ conn' = [conn EXCEPT !.drainIndex = @ + 1]
                  /\ hist' = [hist EXCEPT !.applied =
                       Append(@, conn.iceCandidateBuffer[conn.drainIndex + 1])]
             ELSE /\ conn' = [conn EXCEPT !.drainIndex = 0,
                                          !.iceCandidateBuffer = <<>>]
                  /\ hist' = [hist EXCEPT !.drain = "done"]
          /\ UNCHANGED app
     ELSE /\ conn' = handleAnswerCatch(conn)
          /\ app' = showError(app, "Connection error")
          /\ hist' = [onError(hist) EXCEPT !.drain = "failed"]
  /\ UNCHANGED storage
  /\ UNCHANGED call

\* "peer-disconnected"
PeerDisconnected ==
  /\ PageLoaded /\ signalingDelivers(conn)
  /\ conn' = cleanup(conn)
  /\ app' = showError(app, "Server disconnected")
  /\ hist' = onError(hist)
  /\ UNCHANGED storage
  /\ UNCHANGED call

\* "error"
SignalingError ==
  /\ PageLoaded /\ conn.signaling \in {"connecting", "connected"}
  /\ hist.signalingErrors < MaxSigErrors
  /\ app' = showError(app, "Signaling error")
  /\ hist' = [onError(hist) EXCEPT !.signalingErrors = @ + 1]
  /\ UNCHANGED <<conn, storage>>
  /\ UNCHANGED call

\* -------------------------------------------- peer connection, data channel
\* oniceconnectionstatechange with state "failed" or "disconnected"; ICE
\* checks run once the remote description is set.
IceFailed ==
  /\ PageLoaded /\ conn.pcState = "open" /\ conn.pcRemote
  /\ IF conn.peerConnection = "null"
     THEN UNCHANGED <<conn, app, hist>>
     ELSE /\ conn' = cleanup(conn)
          /\ app' = showError(app, "Connection failed")
          /\ hist' = [onError(hist) EXCEPT !.iceFailed = TRUE]
  /\ UNCHANGED storage
  /\ UNCHANGED call

\* The channel opens (the peers are connected): onopen = checkOpen.
DataChannelOpen ==
  /\ PageLoaded /\ conn.dcState = "connecting" /\ conn.pcState = "open"
  /\ conn.pcRemote
  /\ conn' = [conn EXCEPT !.dcState = "open",
                          !.onmessage = @ \/ (conn.onopen
                                              /\ conn.dataChannel = "dc")]
  /\ UNCHANGED <<storage, app, hist>>
  /\ UNCHANGED call


\* A message handler whose try block never throws.
onmessageNeverThrows(m) == FALSE

\* dataChannel.onmessage: the try block throws.  JSON.parse throws on text
\* that is not JSON; getChannelFromVersion(undefined) throws a TypeError
\* at `version.includes`, before saveConnection is reached.
onmessageThrows(m) == ~m.parses \/ m.server_version = NULL

\* dataChannel.onmessage(event), installed by checkOpen: every message
\* clears the timer, is parsed and saved, and settles the promise of
\* waitForServerInfo (which has an effect only the first time).
\* getChannelFromVersion throws on a missing server_version.  Date.now()
\* is the number of the message: the clock advances between messages.
DataChannelMessage(m) ==
  /\ PageLoaded /\ conn.dcState = "open" /\ conn.onmessage
  /\ hist.messages < MaxMsgs
  /\ LET c1 == clearTimeout(conn)
         h1 == [hist EXCEPT !.messages = @ + 1,
                            !.firstMessage =
                              IF @ # "none" THEN @
                              ELSE IF m.parses /\ m.server_version # NULL
                                   THEN "good" ELSE "bad"]
     IN IF ~onmessageThrows(m)
        THEN /\ storage' = saveConnection(storage,
                  [remoteId |-> conn.remoteId,
                   serverName |-> IF m.server_name # NULL THEN m.server_name
                                  ELSE <<"MA Server ">> \o m.server_id,
                   serverVersion |-> m.server_version,
                   channel |-> getChannelFromVersion(m.server_version),
                   lastConnected |-> h1.messages])
             /\ hist' = [h1 EXCEPT !.saves = @ + 1]
             /\ IF conn.step = "waitForServerInfo"
                THEN /\ conn' = [c1 EXCEPT !.step = "resolved"]
                     /\ app' = [app EXCEPT !.step = "delay",
                                   !.serverVersion = m.server_version]
                ELSE /\ conn' = c1
                     /\ UNCHANGED app
        ELSE IF conn.step = "waitForServerInfo"
        THEN ConnectRejected(c1, "Invalid server response", h1)
        ELSE /\ conn' = c1
             /\ hist' = h1
             /\ UNCHANGED <<storage, app>>
  /\ UNCHANGED call

\* dataChannel.onerror; the channel closes after an error.
DataChannelError ==
  /\ PageLoaded /\ conn.dcState \in {"connecting", "open"} /\ conn.onopen
  /\ IF conn.step = "waitForServerInfo"
     THEN ConnectRejected(clearTimeout(conn), "Data channel error", hist)
     ELSE /\ conn' = [clearTimeout(conn) EXCEPT !.dcState = "closed"]
          /\ UNCHANGED <<storage, app, hist>>
  /\ UNCHANGED call

\* The 30 s timer of waitForServerInfo fires.
TimeoutFired ==
  /\ PageLoaded /\ conn.timeout
  /\ LET c1 == [conn EXCEPT !.timeout = FALSE]
         h1 == [hist EXCEPT !.timedOut = TRUE]
     IN IF conn.step = "waitForServerInfo"
        THEN ConnectRejected(c1, "Timeout waiting for server info", h1)
        ELSE /\ conn' = c1
             /\ hist' = h1
             /\ UNCHANGED <<storage, app>>
  /\ UNCHANGED call

\* ---------------------------------------------------------------- main.ts
\* the cancel button's click handler
Cancel ==
  /\ PageLoaded /\ app.view = "connecting"
  /\ conn' = IF app.connector THEN disconnect(conn) ELSE conn
  /\ app' = [app EXCEPT !.connector = FALSE, !.view = "connect"]
  /\ hist' = [hist EXCEPT !.disconnected = @ \/ app.connector]
  /\ UNCHANGED storage
  /\ UNCHANGED call

\* connectToServer after the 500 ms delay: redirectToFrontend.  The page
\* navigates away, which ends the connector and every object it owns.
Redirect ==
  /\ PageLoaded /\ app.step = "delay"
  /\ app' = [app EXCEPT !.step = "redirected", !.connector = FALSE,
                        !.redirect = getChannelFromVersion(app.serverVersion)]
  /\ conn' = NewConnector
  /\ UNCHANGED <<storage, hist>>
  /\ UNCHANGED call

Next ==
  \/ init
  \/ \E text \in PastedTexts : Paste(text)
  \/ ClickConnect
  \/ \E decoded \in QrTexts : QrCodeSuccess(decoded)
  \/ SignalingConnected
  \/ SignalingRejected
  \/ ConnectionGranted
  \/ OfferCreated
  \/ OfferFailed
  \/ OfferSent
  \/ \E valid \in BOOLEAN : Answer(valid)
  \/ AnswerAccepted
  \/ AnswerFailed
  \/ IceCandidate
  \/ \E ok \in BOOLEAN : DrainSettled(ok)
  \/ PeerDisconnected
  \/ SignalingError
  \/ IceFailed
  \/ DataChannelOpen
  \/ \E m \in Messages : DataChannelMessage(m)
  \/ DataChannelError
  \/ TimeoutFired
  \/ Cancel
  \/ Redirect

Spec == Init /\ [][Next]_vars

\* ------------------------------------- a connector used a second time
\* connect(remoteId) on the connector of an attempt that has ended in its
\* teardown (connect has rejected, no timer of it is left), up to `await
\* this.signaling.connect()`: the fields keep what the teardown left.  The
\* history starts again for the new attempt.
ConnectAgain ==
  /\ PageLoaded /\ conn.step = "rejected" /\ ~conn.timeout
  /\ ~hist.reused
  /\ conn' = signalingConnect(
               [conn EXCEPT !.currentRemoteId = conn.remoteId,
                            !.step = "signaling.connect", !.error = "none"])
  /\ app' = [app EXCEPT !.connector = TRUE, !.step = "connect",
                        !.view = "connecting"]
  /\ hist' = [InitialHist(storage) EXCEPT
                !.reused = TRUE, !.network = {"signaling"},
                !.saved = hist.saved, !.accepted = hist.accepted,
                !.early = hist.early,
                \* the events the environment has delivered so far
                !.answers = hist.answers, !.candidates = hist.candidates,
                !.messages = hist.messages,
                !.signalingErrors = hist.signalingErrors]
  /\ UNCHANGED <<storage, call>>

\* The page of a returning visitor: init() connects to the identifier the
\* frontend left, and the caller connects once more on the same connector.
ConnectorInit ==
  /\ Init
  /\ storage = [EmptyStorage EXCEPT !.mass_remote_id = ID_UPPER,
                                    !.ma_access_token = <<"t">>]

ConnectorNext ==
  \/ init
  \/ ConnectAgain
  \/ SignalingConnected
  \/ SignalingRejected
  \/ ConnectionGranted
  \/ OfferCreated
  \/ OfferFailed
  \/ OfferSent
  \/ \E valid \in BOOLEAN : Answer(valid)
  \/ AnswerAccepted
  \/ AnswerFailed
  \/ IceCandidate
  \/ \E ok \in BOOLEAN : DrainSettled(ok)
  \/ PeerDisconnected
  \/ SignalingError
  \/ IceFailed
  \/ DataChannelOpen
  \/ \E m \in Messages : DataChannelMessage(m)
  \/ DataChannelError
  \/ TimeoutFired
  \/ Cancel
  \/ Redirect

ConnectorSpec == ConnectorInit /\ [][ConnectorNext]_vars

\* ------------------------------------------ a second attempt on the page
\* The connect button clicked after the cancel button, while the cancelled
\* connectToServer call is still suspended at `await connector.connect()`:
\* connectToServer runs again and assigns a new RemoteConnector to
\* `connector`.  The cancelled connector keeps its timer, which cleanup()
\* does not clear.
ClickConnectAfterCancel ==
  /\ PageLoaded /\ app.view = "connect" /\ app.step = "connect"
  /\ ~app.connector /\ ~app.earlier /\ ~hist.reused
  /\ isRemoteIdComplete(app.inputs)
  /\ LET remoteId == getFullRemoteId(app.inputs)
     IN /\ app' = [app EXCEPT !.currentRemoteId = remoteId,
                              !.view = "connecting", !.connector = TRUE,
                              !.earlier = /\ conn.timeout
                                          /\ conn.step = "waitForServerInfo"]
        /\ conn' = signalingConnect(
                     [NewConnector EXCEPT !.currentRemoteId = remoteId,
                                          !.remoteId = remoteId,
                                          !.step = "signaling.connect"])
  /\ hist' = [InitialHist(storage) EXCEPT
                !.reused = TRUE, !.network = {"signaling"},
                !.saved = hist.saved,
                !.answers = hist.answers, !.candidates = hist.candidates,
                !.messages = hist.messages,
                !.signalingErrors = hist.signalingErrors]
  /\ UNCHANGED <<storage, call>>

\* The timer of the cancelled connector fires: its connect() rejects out
\* of its catch block (cleanup() of the cancelled connector), and the
\* catch block of the connectToServer call that awaited it runs
\* `connector?.disconnect(); connector = null; showError(...)` on the
\* module variable `connector`.
EarlierTimeoutFired ==
  /\ PageLoaded /\ app.earlier
  /\ conn' = IF app.connector THEN disconnect(conn) ELSE conn
  /\ app' = [showError(app, "Timeout waiting for server info") EXCEPT
               !.connector = FALSE, !.earlier = FALSE]
  /\ hist' = [hist EXCEPT !.reported = TRUE]
  /\ UNCHANGED <<storage, call>>

AttemptsNext ==
  \/ init
  \/ ClickConnectAfterCancel
  \/ EarlierTimeoutFired
  \/ SignalingConnected
  \/ SignalingRejected
  \/ ConnectionGranted
  \/ OfferCreated
  \/ OfferFailed
  \/ OfferSent
  \/ \E valid \in BOOLEAN : Answer(valid)
  \/ AnswerAccepted
  \/ AnswerFailed
  \/ IceCandidate
  \/ \E ok \in BOOLEAN : DrainSettled(ok)
  \/ PeerDisconnected
  \/ SignalingError
  \/ IceFailed
  \/ DataChannelOpen
  \/ \E m \in Messages : DataChannelMessage(m)
  \/ DataChannelError
  \/ TimeoutFired
  \/ Cancel
  \/ Redirect

AttemptsSpec == ConnectorInit /\ [][AttemptsNext]_vars

\* ------------------------------------------- broker.ts, called directly
\* The exported functions of broker.ts applied to sample arguments, over
\* sample contents of localStorage.
ID_LOWER == Rep("z", RemoteIdLen)
ID_DASH_INSIDE == Rep("A", RemoteIdLen - 1) \o <<"-">>
ID_LONG == Rep("9", RemoteIdLen + 1)

RemoteIds == {ID_UPPER, ID_LOWER, ID_TYPED, ID_SHORT, ID_DASH_INSIDE,
              ID_LONG, NULL}

V_DEV_INSTANCE == <<"0", ".", "0", ".", "0">>
V_NIGHTLY == <<"2", ".", "2", ".", "0", ".", "d", "e", "v", "2">>
V_BETA_DEV == <<"2", ".", "2", ".", "0", "b", "1", ".", "d", "e", "v", "2">>
V_ZERO_BETA == <<"0", ".", "0", ".", "0", "b", "1">>
V_DEV_NO_DOT == <<"2", "d", "e", "v">>

Versions == {V_DEV_INSTANCE, V_STABLE, V_BETA, V_NIGHTLY, V_BETA_DEV,
             V_ZERO_BETA, V_DEV_NO_DOT, NULL}

SavedConnections ==
  {SAVED_STABLE,
   [remoteId |-> ID_LOWER, serverName |-> <<"a", QUOTE, BACKSLASH, "n">>,
    serverVersion |-> V_BETA, channel |-> "beta", lastConnected |-> 0],
   [remoteId |-> ID_UPPER, serverName |-> <<"M", "A">>,
    serverVersion |-> V_NIGHTLY, channel |-> "nightly",
    lastConnected |-> 1090]}

StoredTexts ==
  {NULL, JSON_UNPARSABLE, JSON_EMPTY_OBJECT}
    \cup {JsonStringify(x) : x \in SavedConnections}

Storages ==
  [ma_saved_connection : StoredTexts,
   mass_remote_id : {NULL, ID_UPPER, ID_TYPED},
   ma_access_token : {NULL, <<"t">>}]

BrokerInit ==
  /\ conn = NewConnector
  /\ storage \in Storages
  /\ app = InitialApp
  /\ hist = InitialHist(storage)
  /\ call = NoCall

\* saveConnection(x)
Save(x) ==
  /\ storage' = saveConnection(storage, x)
  /\ call' = [fn |-> "saveConnection", arg |-> x, result |-> NULL,
              before |-> storage, lastSaved |-> {x},
              noLegacy |-> /\ storage.mass_remote_id = NULL
                           /\ storage.ma_access_token = NULL,
              forgotten |-> {}]
  /\ UNCHANGED <<conn, app, hist>>

\* loadSavedConnection()
Load ==
  /\ call' = [call EXCEPT !.fn = "loadSavedConnection", !.arg = NULL,
                          !.result = loadSavedConnection(storage),
                          !.before = storage]
  /\ UNCHANGED <<conn, storage, app, hist>>

\* clearSavedConnection()
Clear ==
  /\ storage' = clearSavedConnection(storage)
  /\ call' = [fn |-> "clearSavedConnection", arg |-> NULL, result |-> NULL,
              before |-> storage, lastSaved |-> {}, noLegacy |-> FALSE,
              \* what was saved and is cleared now, with no save since
              forgotten |-> call.lastSaved \cup call.forgotten]
  /\ UNCHANGED <<conn, app, hist>>

\* isValidRemoteId(remoteId)
Validate(remoteId) ==
  /\ call' = [call EXCEPT !.fn = "isValidRemoteId", !.arg = remoteId,
                          !.result = isValidRemoteId(remoteId),
                          !.before = storage]
  /\ UNCHANGED <<conn, storage, app, hist>>

\* getChannelFromVersion(version)
Classify(version) ==
  /\ call' = [call EXCEPT !.fn = "getChannelFromVersion", !.arg = version,
                          !.result = getChannelFromVersion(version),
                          !.before = storage]
  /\ UNCHANGED <<conn, storage, app, hist>>

BrokerNext ==
  \/ \E x \in SavedConnections : Save(x)
  \/ Load
  \/ Clear
  \/ \E remoteId \in RemoteIds : Validate(remoteId)
  \/ \E version \in Versions : Classify(version)

BrokerSpec == BrokerInit /\ [][BrokerNext]_vars


\* -------------------------------------------------------------- properties
\* The attempt holds no resources and no identity.
TornDown(c) ==
  /\ c.peerConnection = "null" /\ c.dataChannel = "null"
  /\ c.iceCandidateBuffer = <<>> /\ ~c.remoteDescriptionSet
  /\ c.currentRemoteId = NULL

Range(s) == {s[i] : i \in 1..Len(s)}

\* The members of s that are in set, in the order of s.
Restrict(s, set) ==
  LET RECURSIVE R(_)
      R(i) == IF i > Len(s) THEN <<>>
              ELSE IF s[i] \in set THEN <<s[i]>> \o R(i + 1)
              ELSE R(i + 1)
  IN R(1)

\* C1: once the Fingerprint Verifier has rejected an answer of the attempt,
\* no later step - data-channel open or message, further answers or
\* candidates, the timer - writes the Connection Store.
C1_VerificationGate == [][hist.rejected => storage' = storage]_vars

\* C1's case: an answer was rejected, a further answer arrived and the
\* timer fired after the rejection.
C1_Witness == hist.rejected /\ hist.answers = 2 /\ hist.timedOut

\* C2: after disconnect() has returned during an attempt, the peer
\* connection and the data channel stay absent, the buffer stays empty, the
\* accepted flag stays false, the identity stays cleared, and no later
\* step writes the Connection Store.
C2_DisconnectLeavesNoLiveCallback ==
  /\ [](hist.disconnected => TornDown(conn))
  /\ [][hist.disconnected => storage' = storage]_vars

\* C2's case: disconnect() came while answer handling was under way, and a
\* callback of the attempt (the timer) ran afterwards.
C2_Witness ==
  /\ hist.disconnected /\ hist.answers > 0 /\ hist.timedOut
  /\ conn.step = "rejected"

\* C3: when N candidates were received before the remote description was
\* accepted and answer handling has ended, all N have been applied in
\* receipt order and the buffer is empty; a candidate received after
\* acceptance is applied at once and is not buffered.
C3_CandidateOrdering ==
  /\ hist.drain \in {"done", "failed"} =>
       /\ Restrict(hist.applied, Range(hist.buffered)) = hist.buffered
       /\ conn.iceCandidateBuffer = <<>>
  /\ hist.immediate \cap Range(hist.buffered) = {}
  /\ hist.immediate \subseteq Range(hist.applied)

\* C4: when the ceiling timer fires, connect fails with Timeout, the
\* attempt is torn down and the Connection Store is as it was before the
\* attempt.
C4_Timeout ==
  hist.timedOut =>
    /\ conn.step = "rejected"
    /\ conn.error = "Timeout waiting for server info"
    /\ TornDown(conn) /\ conn.signaling = "disconnected"
    /\ conn.pcState # "open" /\ conn.dcState \notin {"connecting", "open"}
    /\ storage = hist.storage0

\* C4's case: the handshake got as far as an accepted answer and an open
\* channel, no message came and the timer fired.
C4_Witness == hist.timedOut /\ hist.accepted /\ conn.onmessage

\* C5: the ceiling timer is pending in every non-terminal state of the
\* attempt, from the invocation of connect on.
C5_CeilingTimerCoversAttempt ==
  conn.step \in {"signaling.connect", "requestConnection", "createOffer",
                 "setLocalDescription", "waitForServerInfo"}
    => conn.timeout

\* C6: the connector fires the error callback at most once per attempt, and
\* exactly once for an attempt whose connect call has failed.
C6_ErrorCallbackExactlyOnce ==
  /\ hist.onErrorCalls <= 1
  /\ conn.step = "rejected" => hist.onErrorCalls = 1

\* C7: once an error has been reported for the attempt, by the error
\* callback or by connect failing, the attempt is torn down.
C7_EveryErrorTearsDown == hist.reported => TornDown(conn)

\* C8: after ICE went failed or disconnected during a pending connect call,
\* that call has failed with ConnectionFailed.
C8_IceFailureFailsConnect ==
  hist.iceFailed /\ conn.step # "resolved" =>
    conn.step = "rejected" /\ conn.error = "Connection failed"

\* C9: an identifier the Identity Codec does not accept never reaches the
\* network: connect fails with InvalidIdentifier and no signaling call is
\* made for it.
C9_InvalidIdentifierNeverReachesNetwork ==
  app.step # "idle" /\ ~isValidRemoteId(app.currentRemoteId) =>
    /\ hist.network = {}
    /\ conn.step = "rejected" /\ conn.error = "Invalid identifier"

\* C10: the orchestrator writes the Connection Store at most once per
\* attempt, and only for an attempt that has succeeded.
C10_SingleSuccessExit ==
  /\ hist.saves <= 1
  /\ hist.saves = 1 => app.step \in {"delay", "redirected"}

C12_IdempotentTeardown ==
  LET once == disconnect(conn)
  IN /\ TornDown(once) /\ once.signaling = "disconnected"
     /\ once.pcState # "open" /\ once.dcState \notin {"connecting", "open"}
     /\ disconnect(once) = once

\* C12's case: disconnect() was called after the attempt had completed,
\* with the peer connection and the channel open.
C12_Witness ==
  /\ hist.disconnected /\ conn.step = "resolved"
  /\ conn.pcState = "closed" /\ conn.dcState = "closed"

\* C13: when init() finds a saved connection, the portal reconnects to the
\* saved server, and it redirects only after that connect has succeeded,
\* to the channel of the version the server reported in it.
C13_ReturnVisitReconnects ==
  hist.saved =>
    /\ "signaling" \in hist.network
    /\ app.redirect # "none" =>
         /\ app.step = "redirected" /\ hist.saves > 0
         /\ app.redirect = getChannelFromVersion(app.serverVersion)

\* A record with the members of a SavedConnection.
IsSavedConnection(c) ==
  /\ c.remoteId # NULL /\ c.serverVersion # NULL
  /\ c.channel \in {"stable", "beta", "nightly"}

\* C14: save(x) followed by load() returns a record equal to x in every
\* field, when no legacy key was present before the save.
C14_StoreRoundTrip ==
  call.fn = "loadSavedConnection" /\ call.lastSaved # {} /\ call.noLegacy
    => call.result = call.lastSaved

\* C14's case: a record whose display name holds a quote and a backslash
\* was saved into a store without legacy keys and loaded again.
C14_Witness ==
  /\ call.fn = "loadSavedConnection" /\ call.noLegacy
  /\ \E x \in call.lastSaved : Includes(x.serverName, <<QUOTE, BACKSLASH>>)

\* C15: load() returns the primary record when that is present and
\* well-formed; otherwise the placeholder record exactly when the legacy
\* identifier key and the legacy token key are both present and the
\* identifier is valid; otherwise null.
C15_LoadTreatsMalformedAsAbsent ==
  call.fn = "loadSavedConnection" =>
    LET stored == call.before.ma_saved_connection
        wellFormed == /\ stored # NULL /\ JsonParses(stored)
                      /\ IsSavedConnection(JsonParse(stored))
    IN call.result =
         IF wellFormed THEN {JsonParse(stored)}
         ELSE IF /\ call.before.mass_remote_id # NULL
                 /\ call.before.ma_access_token # NULL
                 /\ isValidRemoteId(call.before.mass_remote_id)
              THEN {PlaceholderConnection(call.before.mass_remote_id)}
              ELSE {}

\* C16: clear() removes the primary record and leaves the legacy identifier
\* key and the legacy token key as they were, whatever the store held.
C16_ClearLeavesLegacyKeys ==
  call.fn = "clearSavedConnection" =>
    /\ storage.ma_saved_connection = NULL
    /\ storage.mass_remote_id = call.before.mass_remote_id
    /\ storage.ma_access_token = call.before.ma_access_token

\* C16's case: clear() was called on a store that held the primary record
\* and both legacy keys.
C16_Witness ==
  /\ call.fn = "clearSavedConnection"
  /\ call.before.ma_saved_connection # NULL
  /\ call.before.mass_remote_id # NULL /\ call.before.ma_access_token # NULL

\* C17: isValid is true iff the normalized form of its input (uppercased,
\* everything outside A-Z0-9 stripped) has exactly 26 characters; an input
\* with dashes or lowercase letters that normalizes to 26 is accepted.
C17_IsValidNormalizes ==
  call.fn = "isValidRemoteId" =>
    (call.result <=> Len(CleanText(call.arg)) = RemoteIdLen)

\* C18: classify returns nightly when the version equals "0.0.0" or
\* contains ".dev", otherwise beta when it contains "b", otherwise stable;
\* the nightly rules win when the beta rule matches too.
C18_ClassifierPrecedence ==
  call.fn = "getChannelFromVersion" =>
    LET nightly == \/ call.arg = <<"0", ".", "0", ".", "0">>
                   \/ Includes(call.arg, <<".", "d", "e", "v">>)
        beta == Includes(call.arg, <<"b">>)
    IN /\ call.result \in {"stable", "beta", "nightly"}
       /\ nightly => call.result = "nightly"
       /\ ~nightly /\ beta => call.result = "beta"
       /\ ~nightly /\ ~beta => call.result = "stable"

\* C18's case: a version that matches a nightly rule and the beta rule.
C18_Witness ==
  /\ call.fn = "getChannelFromVersion" /\ call.arg = V_BETA_DEV
  /\ call.result = "nightly"

\* C19: no remote ICE candidate is given to a peer connection that has no
\* remote description yet - the flag the connector tests is never set for
\* a peer connection without one - also in an attempt started on a
\* connector whose earlier attempt was torn down.
C19_NoCandidateBeforeAcceptance ==
  /\ ~hist.early
  /\ conn.remoteDescriptionSet /\ conn.peerConnection = "pc" => conn.pcRemote

\* C19's case: the first attempt had its answer accepted and was torn
\* down; in the second attempt on the same connector a candidate arrived
\* before the answer and sits in the buffer.
C19_Witness ==
  /\ hist.reused /\ hist.accepted /\ conn.peerConnection = "pc"
  /\ ~conn.pcRemote /\ conn.iceCandidateBuffer # <<>>

\* C20: a failure to apply one remote ICE candidate, here while the buffer
\* is drained, fires no error callback and tears nothing down: the peer
\* connection stays and the drain goes on with the remaining candidates.
C20_CandidateFailureIsNotFatal ==
  [][hist.drain = "running" /\ hist'.drain = "failed" =>
       /\ hist'.onErrorCalls = hist.onErrorCalls
       /\ conn'.peerConnection = "pc" /\ conn'.pcState = "open"]_vars

\* C21: between any two handler steps, the await points of answer handling
\* included, the remote-description flag being true implies that the
\* buffer of pending candidates is empty.
C21_AcceptedImpliesBufferEmpty ==
  conn.remoteDescriptionSet => conn.iceCandidateBuffer = <<>>

\* The attempt has ended: connect has settled, or the teardown has run.
AttemptEnded ==
  \/ conn.step \in {"resolved", "rejected"}
  \/ conn.step # "idle" /\ TornDown(conn)

\* C22: once the attempt has ended - by success, by a failure that tore it
\* down, or by disconnect() - its ceiling timer is no longer pending.
C22_TimerClearedAtEnd == AttemptEnded => ~conn.timeout

\* C23: when init() was given the placeholder record of the legacy keys,
\* the page redirects only after a connect has succeeded, and then to the
\* channel of the version the server reported.
C23_PlaceholderNeverTrusted ==
  /\ hist.storage0.mass_remote_id # NULL
  /\ loadSavedConnection(hist.storage0)
       = {PlaceholderConnection(hist.storage0.mass_remote_id)}
  /\ app.redirect # "none"
  => /\ app.step = "redirected" /\ hist.saves > 0
     /\ app.redirect = getChannelFromVersion(app.serverVersion)

\* C23's case: startup loaded the placeholder (channel stable), the
\* handshake succeeded with a beta version and the page went to beta.
C23_Witness ==
  /\ hist.storage0.mass_remote_id # NULL
  /\ loadSavedConnection(hist.storage0)
       = {PlaceholderConnection(hist.storage0.mass_remote_id)}
  /\ app.redirect = "beta" /\ app.serverVersion = V_BETA

\* C26: after save(x) followed by clear(), with no save in between, load()
\* returns null, whatever the legacy token key holds.
C26_ForgetForgets ==
  call.fn = "loadSavedConnection" /\ call.forgotten # {} => call.result = {}

\* C25: remote ICE candidates are given to the peer connection in the
\* order in which they were received (candidates are numbered as they
\* arrive): none is applied before one that was received earlier.
C25_AppliedInReceiptOrder ==
  \A i, j \in 1..Len(hist.applied) : i < j => hist.applied[i] < hist.applied[j]

\* C24: the late failure of an earlier, cancelled attempt leaves the newer
\* attempt alone while that is in progress: its connector is neither
\* disconnected nor nulled, and the view does not change to the error view.
C24_AttemptsIsolated ==
  [][app.earlier /\ ~app'.earlier /\ app.connector /\ app.view = "connecting"
       => /\ conn' = conn
          /\ app'.connector /\ app'.view = "connecting"]_vars

====
